---- MODULE Spec2Model ----
(***************************************************************************)
(* A model of CASM::mapping search data (src/src/casm/mapping/SearchData.cc) *)
(* : periodic-image displacements, trial translations, the atom mapping    *)
(* cost, the assignment cost matrix, the search data records and their      *)
(* shared ownership.                                                        *)
(*                                                                          *)
(* Numbers.  Eigen::Vector3d values are modelled exactly, as vectors of     *)
(* rationals with one common denominator, [n |-> <<x, y, z>>, d |-> den],   *)
(* kept in lowest terms, so that two equal vectors are equal values.        *)
(* Scalars (costs, squared lengths) are rationals [n |-> num, d |-> den].   *)
(* A tolerance is far below the resolution of the coordinates of the model  *)
(* and is modelled by its sign alone: for tol > 0, "x < y + tol" is x <= y  *)
(* and "x > y + tol" is x > y; for tol < 0, "x < y + tol" is x < y and      *)
(* "x > y + tol" is x >= y.                                                 *)
(***************************************************************************)
EXTENDS Integers, Sequences, FiniteSets, TLC

VARIABLES
  call,                  \* the last call of a function or constructor: its arguments (and its result)
  voronoi,               \* a call of robust_pbc_displacement_cart, run step by step
  prim_search_data,             \* the outcome of constructing the PrimSearchData, or Null
  structure_search_data,        \* the same for the StructureSearchData
  lattice_mapping_search_data,  \* the same for the LatticeMappingSearchData
  trial_translations_made,      \* the outcome of make_trial_translations, or Null
  atom_mapping_search_data,     \* the outcome of constructing the AtomMappingSearchData, or Null
  heap,                  \* the records held through std::shared_ptr, by address
  holders                \* the number of std::shared_ptr handles the callers hold to each address

vars == <<call, voronoi, prim_search_data, structure_search_data,
          lattice_mapping_search_data, trial_translations_made,
          atom_mapping_search_data, heap, holders>>

records == <<prim_search_data, structure_search_data,
             lattice_mapping_search_data, trial_translations_made,
             atom_mapping_search_data, heap, holders>>

\* A record not constructed, a result not computed.
Null == [status |-> "null"]

(***************************************************************************)
(* Integer and rational arithmetic (Eigen / <cmath> operations).           *)
(***************************************************************************)
Abs(x) == IF x < 0 THEN -x ELSE x

\* TLC evaluates the arguments of an operator by name where it keeps no
\* cache (in ENABLED and in state predicates); the arguments of the operators
\* below are bound through a set, which evaluates them once.
RECURSIVE GCD(_, _)
GCD(a, b) ==
  IF b = 0 THEN a ELSE CHOOSE g \in {GCD(b, r) : r \in {a % b}} : TRUE

\* A rational in lowest terms with positive denominator.
RatOf(num, den) ==
  LET s == IF den < 0 THEN -1 ELSE 1
  IN  CHOOSE q \in {[n |-> (s * num) \div g, d |-> (s * den) \div g] :
                      g \in {GCD(Abs(num), Abs(den))}} : TRUE

Rat(num, den) == CHOOSE q \in {RatOf(a, b) : a \in {num}, b \in {den}} : TRUE

RatInt(k) == [n |-> k, d |-> 1]

RatLess(a, b) == a.n * b.d < b.n * a.d

RatLeq(a, b) == a.n * b.d <= b.n * a.d

\* A vector in lowest terms: numerators x, y, z over the common denominator
\* den > 0.
VecOf(x, y, z, den) ==
  CHOOSE v \in {[n |-> <<x \div g, y \div g, z \div g>>, d |-> den \div g] :
                  g \in {GCD(GCD(GCD(Abs(x), Abs(y)), Abs(z)), den)}} : TRUE

Vec(nv, den) ==
  CHOOSE v \in {VecOf(x, y, z, d) :
                  x \in {nv[1]}, y \in {nv[2]}, z \in {nv[3]}, d \in {den}} : TRUE

IntVec(k) == [n |-> k, d |-> 1]

\* Eigen::Vector3d::Zero()
ZeroVec == IntVec(<<0, 0, 0>>)

\* u + v and u - v
VAdd(u, v) ==
  Vec([i \in 1..3 |-> u.n[i] * v.d + v.n[i] * u.d], u.d * v.d)

VSub(u, v) ==
  Vec([i \in 1..3 |-> u.n[i] * v.d - v.n[i] * u.d], u.d * v.d)

\* u.dot(v)
Dot(u, v) ==
  Rat(u.n[1] * v.n[1] + u.n[2] * v.n[2] + u.n[3] * v.n[3], u.d * v.d)

\* k * v for an integer k
VScale(k, v) == Vec([i \in 1..3 |-> k * v.n[i]], v.d)

\* Integer 3x3 matrices are tuples of rows.
IdentityMat == <<<<1, 0, 0>>, <<0, 1, 0>>, <<0, 0, 1>>>>

MatMul(A, B) ==
  [i \in 1..3 |-> [j \in 1..3 |->
      A[i][1] * B[1][j] + A[i][2] * B[2][j] + A[i][3] * B[3][j]]]

Det3(M) ==
    M[1][1] * (M[2][2] * M[3][3] - M[2][3] * M[3][2])
  - M[1][2] * (M[2][1] * M[3][3] - M[2][3] * M[3][1])
  + M[1][3] * (M[2][1] * M[3][2] - M[2][2] * M[3][1])

\* The adjugate: M^-1 = Adj3(M) / Det3(M).
Adj3(M) ==
  << << M[2][2] * M[3][3] - M[2][3] * M[3][2],
        M[1][3] * M[3][2] - M[1][2] * M[3][3],
        M[1][2] * M[2][3] - M[1][3] * M[2][2] >>,
     << M[2][3] * M[3][1] - M[2][1] * M[3][3],
        M[1][1] * M[3][3] - M[1][3] * M[3][1],
        M[1][3] * M[2][1] - M[1][1] * M[2][3] >>,
     << M[2][1] * M[3][2] - M[2][2] * M[3][1],
        M[1][2] * M[3][1] - M[1][1] * M[3][2],
        M[1][1] * M[2][2] - M[1][2] * M[2][1] >> >>

\* M * v for an integer matrix M
MatVec(M, v) ==
  Vec([i \in 1..3 |-> M[i][1] * v.n[1] + M[i][2] * v.n[2] + M[i][3] * v.n[3]],
      v.d)

\* M^-1 * v for an integer matrix M with non-zero determinant
InvMatVec(M, v) ==
  LET D == Det3(M)
      s == IF D < 0 THEN -1 ELSE 1
      A == Adj3(M)
  IN  Vec([i \in 1..3 |->
             s * (A[i][1] * v.n[1] + A[i][2] * v.n[2] + A[i][3] * v.n[3])],
          Abs(D) * v.d)

\* std::lround of num/den (den > 0): nearest integer, halves away from zero.
LRound(num, den) ==
  IF num >= 0 THEN (2 * num + den) \div (2 * den)
              ELSE -((2 * (-num) + den) \div (2 * den))

\* lround(v).cast<double>()
LRoundVec(v) == IntVec([i \in 1..3 |-> LRound(v.n[i], v.d)])

(***************************************************************************)
(* xtal::Lattice: the column matrix of the lattice vectors, a tolerance    *)
(* (its sign), and the members the lattice computes from them: the Voronoi *)
(* table and the inner Voronoi radius.                                     *)
(***************************************************************************)
\* "x < y + tol" and "x > y + tol" for rationals x, y (see the header).
LessWithTol(x, y, tol) == IF tol > 0 THEN RatLeq(x, y) ELSE RatLess(x, y)

GreaterWithTol(x, y, tol) == IF tol > 0 THEN RatLess(y, x) ELSE RatLeq(y, x)

IDot(u, v) == u[1] * v[1] + u[2] * v[2] + u[3] * v[3]

\* The lattice point L * k of the i-th k in {-1, 0, 1}^3 (in a fixed order),
\* as a tuple of integers; the 14th is the origin.
NeighborPoint(M, i) ==
  LET k == <<((i - 1) \div 9) - 1, (((i - 1) \div 3) % 3) - 1, ((i - 1) % 3) - 1>>
  IN  <<IDot(M[1], k), IDot(M[2], k), IDot(M[3], k)>>

\* A row [v |-> v, sq |-> v.v] for each neighbor v from the i-th on, in order.
RECURSIVE neighbor_rows(_, _)
neighbor_rows(M, i) ==
  IF i > 27 THEN <<>>
  ELSE (IF i = 14 THEN <<>>
        ELSE LET v == NeighborPoint(M, i) IN <<[v |-> v, sq |-> IDot(v, v)]>>)
       \o neighbor_rows(M, i + 1)

\* Lattice::voronoi_table: the rows of the neighbors v whose half v/2 lies on
\* the boundary of the Voronoi (Wigner-Seitz) cell, i.e. v.w <= w.w for every
\* neighbor w.
make_voronoi_table(M) ==
  LET rows == neighbor_rows(M, 1)
      on_boundary(r) == \A j \in 1..Len(rows) : IDot(r.v, rows[j].v) <= rows[j].sq
  IN  SelectSeq(rows, on_boundary)

\* Lattice::inner_voronoi_radius, squared and times four: the least v.v.
make_inner_voronoi_diameter_sq(T) ==
  LET m == CHOOSE i \in 1..Len(T) : \A j \in 1..Len(T) : T[i].sq <= T[j].sq
  IN  RatInt(T[m].sq)

Lattice(M, tol) ==
  LET T == make_voronoi_table(M)
  IN  [lat_column_mat |-> M, tol |-> tol, voronoi_table |-> T,
       inner_voronoi_diameter_sq |-> make_inner_voronoi_diameter_sq(T)]

\* The first row of T[i..] whose measure 2 pos.v / v.v exceeds that of row
\* best, and so on to the end of the table: Eigen's maxCoeff(&maxv).
RECURSIVE max_coeff(_, _, _, _)
max_coeff(T, pos, best, i) ==
  IF i > Len(T) THEN best
  ELSE IF IDot(pos.n, T[i].v) * T[best].sq > IDot(pos.n, T[best].v) * T[i].sq
       THEN max_coeff(T, pos, i, i + 1)
       ELSE max_coeff(T, pos, best, i + 1)

\* Lattice::max_voronoi_measure(pos, lattice_trans): the largest measure over
\* the table (the first row that attains it), and the lattice translation
\* floor(maxproj/2 + 0.5 + TOL/2) * v of that row.
max_voronoi_measure(lattice, pos) ==
  LET T == lattice.voronoi_table
      measure(row) ==
        LET p == Rat(2 * IDot(pos.n, row.v), pos.d * row.sq)
        IN  [maxproj |-> p,
             lattice_trans |-> VScale((p.n + p.d) \div (2 * p.d), IntVec(row.v))]
  IN  CHOOSE m \in {measure(T[maxv]) : maxv \in {max_coeff(T, pos, 1, 2)}} : TRUE

\* is_integer(L^-1 * v, tol): every fractional coordinate is within tol of an
\* integer; no number is within a negative tolerance of another.
is_integer(frac, tol) == tol > 0 /\ frac.d = 1

(***************************************************************************)
(* Periodic-image displacements.                                           *)
(***************************************************************************)
\* The statements of fast_pbc_displacement_cart, lines 66 to 70.
\* Line 66: disp_cart = atom_cart - site_cart
fast_disp_cart(site_cart, atom_cart) == VSub(atom_cart, site_cart)

\* Line 67: disp_frac = lattice.inv_lat_column_mat() * disp_cart
fast_disp_frac(lattice, disp_cart) ==
  InvMatVec(lattice.lat_column_mat, disp_cart)

\* Line 68: frac_lattice_translation = lround(disp_frac).cast<double>()
fast_frac_lattice_translation(disp_frac) == LRoundVec(disp_frac)

\* Line 69: disp_frac -= frac_lattice_translation
fast_disp_frac_reduced(disp_frac, frac_lattice_translation) ==
  VSub(disp_frac, frac_lattice_translation)

\* Line 70: return lattice.inv_lat_column_mat() * disp_frac
fast_return(lattice, disp_frac) ==
  InvMatVec(lattice.lat_column_mat, disp_frac)

\* mapping_impl::fast_pbc_displacement_cart
fast_pbc_displacement_cart(lattice, site_cart, atom_cart) ==
  LET disp_cart == fast_disp_cart(site_cart, atom_cart)
      disp_frac == fast_disp_frac(lattice, disp_cart)
      frac_lattice_translation == fast_frac_lattice_translation(disp_frac)
      disp_frac_2 == fast_disp_frac_reduced(disp_frac, frac_lattice_translation)
  IN  fast_return(lattice, disp_frac_2)

\* !(disp_cart.norm() < lattice.inner_voronoi_radius() + lattice.tol())
enters_voronoi_loop(lattice, disp_cart) ==
  LET n2 == Dot(disp_cart, disp_cart)
  IN  ~ LessWithTol(Rat(4 * n2.n, n2.d), lattice.inner_voronoi_diameter_sq,
                    lattice.tol)

\* The condition of the while loop:
\* lattice.max_voronoi_measure(disp_cart, lattice_trans) > 1. + lattice.tol()
voronoi_loop_condition(lattice, disp_cart) ==
  GreaterWithTol(max_voronoi_measure(lattice, disp_cart).maxproj, RatInt(1),
                 lattice.tol)

\* The body of the while loop: disp_cart -= lattice_trans
voronoi_loop_body(lattice, disp_cart) ==
  VSub(disp_cart, max_voronoi_measure(lattice, disp_cart).lattice_trans)

\* The outcome of a call whose while loop never exits.
Diverges == [n |-> <<0, 0, 0>>, d |-> 0]

\* The while loop, run to its end.  The loop is deterministic, so it never
\* exits once disp_cart takes a value it has had before.
RECURSIVE voronoi_loop(_, _, _)
voronoi_loop(lattice, disp_cart, seen) ==
  IF ~ voronoi_loop_condition(lattice, disp_cart) THEN disp_cart
  ELSE LET next == voronoi_loop_body(lattice, disp_cart)
       IN  IF next \in seen \cup {disp_cart} THEN Diverges
           ELSE voronoi_loop(lattice, next, seen \cup {disp_cart})

\* mapping_impl::robust_pbc_displacement_cart
robust_pbc_displacement_cart(lattice, site_cart, atom_cart) ==
  LET disp_cart == fast_pbc_displacement_cart(lattice, site_cart, atom_cart)
  IN  IF enters_voronoi_loop(lattice, disp_cart)
      THEN voronoi_loop(lattice, disp_cart, {})
      ELSE disp_cart

(***************************************************************************)
(* The atom mapping cost and the assignment cost matrix.  Atom types are   *)
(* strings; the types allowed on a site are a sequence of strings (a       *)
(* std::vector<std::string>); costs are rationals.                         *)
(***************************************************************************)
\* xtal::is_vacancy(name)
is_vacancy(name) == name \in {"VA", "va", "Va"}

\* std::find(begin, end, atom_type) != end
std_find(allowed_atom_types, atom_type) ==
  \E k \in 1..Len(allowed_atom_types) : allowed_atom_types[k] = atom_type

\* make_atom_mapping_cost with a vacancy costed 0 on every site.
make_atom_mapping_cost_vacancy_anywhere(displacement, atom_type, allowed_atom_types, infinity) ==
  IF is_vacancy(atom_type) THEN RatInt(0)
  ELSE IF ~ std_find(allowed_atom_types, atom_type) THEN infinity
  ELSE Dot(displacement, displacement)

\* make_atom_mapping_cost with the test of a vacancy atom by its label alone.
make_atom_mapping_cost_literal(displacement, atom_type, allowed_atom_types, infinity) ==
  IF ~ std_find(allowed_atom_types, atom_type) THEN infinity
  ELSE IF is_vacancy(atom_type) THEN RatInt(0)
  ELSE Dot(displacement, displacement)

\* make_atom_mapping_cost
make_atom_mapping_cost(displacement, atom_type, allowed_atom_types, infinity) ==
  IF is_vacancy(atom_type)
  THEN IF \E k \in 1..Len(allowed_atom_types) :
             is_vacancy(allowed_atom_types[k])
       THEN RatInt(0)
       ELSE infinity
  ELSE IF ~ std_find(allowed_atom_types, atom_type) THEN infinity
  ELSE Dot(displacement, displacement)

\* A call f(displacement, atom_type, allowed_atom_types, infinity) of an
\* AtomMappingCostFunction f, a cost function passed by its name.
cost_function(f, displacement, atom_type, allowed_atom_types, infinity) ==
  CASE f = "make_atom_mapping_cost" ->
         make_atom_mapping_cost(displacement, atom_type, allowed_atom_types,
                                infinity)

\* The two dimension checks of make_cost_matrix, lines 333 to 345: the
\* message of the std::runtime_error thrown, or "" when none is.
cost_matrix_dimension_error(site_displacements, atom_type, allowed_atom_types) ==
  IF Len(site_displacements) /= Len(allowed_atom_types)
  THEN "site_displacements.size() != allowed_atom_types.size()"
  ELSE IF \E i \in 1..Len(site_displacements) :
            Len(site_displacements[i]) /= Len(atom_type)
  THEN "an element of site_displacements != atom_type.size()"
  ELSE ""

\* The first loop writes cost_matrix(site_index, atom_index) for every
\* atom_index < N_atom, whatever N_site is: with more atoms than sites (and a
\* site) it writes outside the N_site x N_site matrix.
cost_matrix_writes_out_of_bounds(atom_type, allowed_atom_types) ==
  Len(allowed_atom_types) >= 1 /\ Len(atom_type) > Len(allowed_atom_types)

\* The entries the two loops of make_cost_matrix write inside the matrix,
\* lines 350 to 368; cost_matrix[i][j] is cost_matrix(i - 1, j - 1).
cost_matrix_entries(f, site_displacements, atom_type, allowed_atom_types, infinity) ==
  LET N_site == Len(allowed_atom_types)
      N_atom == Len(atom_type)
  IN  [site_index \in 1..N_site |-> [atom_index \in 1..N_site |->
        IF atom_index <= N_atom
        THEN cost_function(f, site_displacements[site_index][atom_index],
               atom_type[atom_index], allowed_atom_types[site_index], infinity)
        ELSE cost_function(f, ZeroVec, "Va", allowed_atom_types[site_index],
                           infinity)]]

\* make_cost_matrix with the padding columns costed as the last atom's type.
make_cost_matrix_pad_type(f, site_displacements, atom_type, allowed_atom_types, infinity) ==
  LET error == cost_matrix_dimension_error(site_displacements, atom_type,
                                           allowed_atom_types)
      N_site == Len(allowed_atom_types)
      N_atom == Len(atom_type)
  IN  IF error /= "" THEN {[status |-> "throws", what |-> error]}
      ELSE {[status |-> "returned", out_of_bounds_write |-> FALSE,
             cost_matrix |->
               [site_index \in 1..N_site |-> [atom_index \in 1..N_site |->
                 cost_function(f,
                   IF atom_index <= N_atom
                   THEN site_displacements[site_index][atom_index] ELSE ZeroVec,
                   IF N_atom = 0 THEN "Va"
                   ELSE atom_type[IF atom_index <= N_atom THEN atom_index
                                  ELSE N_atom],
                   allowed_atom_types[site_index], infinity)]]]}

\* mapping_impl::make_cost_matrix: the set of its outcomes.  A write outside
\* the matrix is undefined behaviour: the build either stops at Eigen's index
\* assertion or writes outside the matrix's storage and returns.
make_cost_matrix(f, site_displacements, atom_type, allowed_atom_types, infinity) ==
  LET error == cost_matrix_dimension_error(site_displacements, atom_type,
                                           allowed_atom_types)
      out == cost_matrix_writes_out_of_bounds(atom_type, allowed_atom_types)
      returned == [status |-> "returned", out_of_bounds_write |-> out,
                   cost_matrix |-> cost_matrix_entries(f, site_displacements,
                       atom_type, allowed_atom_types, infinity)]
  IN  IF error /= "" THEN {[status |-> "throws", what |-> error]}
      ELSE IF out THEN {[status |-> "assertion_failure"], returned}
      ELSE {returned}

(***************************************************************************)
(* Trial translations.  A 3 x N matrix of coordinates is the sequence of   *)
(* its columns, and an index of the model is the index of the code plus    *)
(* one.  A symmetry operation is [matrix |-> M, translation |-> t].        *)
(***************************************************************************)
\* xtal::SymOp::identity()
SymOp_identity == [matrix |-> IdentityMat, translation |-> ZeroVec]

\* xtal::make_internal_translations(factor_group, tol): the translations of
\* the operations whose matrix is the identity to within tol, in their order.
make_internal_translations(prim_factor_group, tol) ==
  LET pure(op) == tol > 0 /\ op.matrix = IdentityMat
      ops == SelectSeq(prim_factor_group, pure)
  IN  [k \in 1..Len(ops) |-> ops[k].translation]

\* mapping_impl::is_new_unique_translation
is_new_unique_translation(prim_lattice, test_translation_cart, internal_translations_cart, current_unique_translations_cart) ==
  IF Len(internal_translations_cart) = 1 THEN TRUE
  ELSE ~ \E k \in 1..Len(internal_translations_cart) :
           \E m \in 1..Len(current_unique_translations_cart) :
             is_integer(
               InvMatVec(prim_lattice.lat_column_mat,
                         VSub(VAdd(test_translation_cart,
                                   internal_translations_cart[k]),
                              current_unique_translations_cart[m])),
               prim_lattice.tol)

\* Lines 194 to 201: the number of prim sites whose allowed types contain type.
N_allowed_sites(prim_allowed_atom_types, type) ==
  Cardinality({b \in 1..Len(prim_allowed_atom_types) :
                 std_find(prim_allowed_atom_types[b], type)})

\* choose_best_atom without the return of lines 202 to 204.
RECURSIVE choose_best_atom_no_return(_, _, _, _, _)
choose_best_atom_no_return(atom_type, prim_allowed_atom_types, atom_index, best_atom_index, min_N_allowed_sites) ==
  IF atom_index > Len(atom_type)
  THEN [returned_early |-> FALSE, best_atom_index |-> best_atom_index]
  ELSE LET N == N_allowed_sites(prim_allowed_atom_types, atom_type[atom_index])
       IN  IF N < min_N_allowed_sites
           THEN choose_best_atom_no_return(atom_type, prim_allowed_atom_types,
                                           atom_index + 1, atom_index, N)
           ELSE choose_best_atom_no_return(atom_type, prim_allowed_atom_types,
                                           atom_index + 1, best_atom_index,
                                           min_N_allowed_sites)

\* choose_best_atom with "<=" for "<" at line 205.
RECURSIVE choose_best_atom_last(_, _, _, _, _)
choose_best_atom_last(atom_type, prim_allowed_atom_types, atom_index, best_atom_index, min_N_allowed_sites) ==
  IF atom_index > Len(atom_type)
  THEN [returned_early |-> FALSE, best_atom_index |-> best_atom_index]
  ELSE LET N == N_allowed_sites(prim_allowed_atom_types, atom_type[atom_index])
       IN  IF N = 0
           THEN [returned_early |-> TRUE, best_atom_index |-> best_atom_index]
           ELSE IF N <= min_N_allowed_sites
           THEN choose_best_atom_last(atom_type, prim_allowed_atom_types,
                                      atom_index + 1, atom_index, N)
           ELSE choose_best_atom_last(atom_type, prim_allowed_atom_types,
                                      atom_index + 1, best_atom_index,
                                      min_N_allowed_sites)

\* The loop of lines 193 to 209 from atom_index on: whether it returned at
\* line 203, and best_atom_index when it ended.
RECURSIVE choose_best_atom(_, _, _, _, _)
choose_best_atom(atom_type, prim_allowed_atom_types, atom_index, best_atom_index, min_N_allowed_sites) ==
  IF atom_index > Len(atom_type)
  THEN [returned_early |-> FALSE, best_atom_index |-> best_atom_index]
  ELSE LET N == N_allowed_sites(prim_allowed_atom_types, atom_type[atom_index])
       IN  IF N = 0
           THEN [returned_early |-> TRUE, best_atom_index |-> best_atom_index]
           ELSE IF N < min_N_allowed_sites
           THEN choose_best_atom(atom_type, prim_allowed_atom_types,
                                 atom_index + 1, atom_index, N)
           ELSE choose_best_atom(atom_type, prim_allowed_atom_types,
                                 atom_index + 1, best_atom_index,
                                 min_N_allowed_sites)

\* Lines 215 to 224: the test translations of the second loop, one for each
\* prim site, in order, whose allowed types contain the type best_atom_type:
\* the site less the atom's coordinate best_atom_cart.
RECURSIVE test_translations(_, _, _, _, _)
test_translations(prim_site_coordinate_cart, prim_allowed_atom_types, best_atom_type, best_atom_cart, prim_site_index) ==
  IF prim_site_index > Len(prim_allowed_atom_types) THEN <<>>
  ELSE (IF std_find(prim_allowed_atom_types[prim_site_index], best_atom_type)
        THEN <<VSub(prim_site_coordinate_cart[prim_site_index], best_atom_cart)>>
        ELSE <<>>)
       \o test_translations(prim_site_coordinate_cart, prim_allowed_atom_types,
                            best_atom_type, best_atom_cart, prim_site_index + 1)

\* Lines 226 to 229 over the test translations from the k-th on.
RECURSIVE collect_unique_translations(_, _, _, _, _)
collect_unique_translations(prim_lattice, internal_translations, tests, k, trial_translations) ==
  IF k > Len(tests) THEN trial_translations
  ELSE collect_unique_translations(prim_lattice, internal_translations, tests,
         k + 1,
         IF is_new_unique_translation(prim_lattice, tests[k],
                                      internal_translations, trial_translations)
         THEN Append(trial_translations, tests[k])
         ELSE trial_translations)

\* What a read of atom_type[0] and of column 0 of the atom coordinates finds
\* when there is no atom.
GarbageAtoms ==
  {[type |-> t, cart |-> c] :
     t \in {"", "A", "Va"}, c \in {ZeroVec, Vec(<<1, 2, 3>>, 7)}}

\* mapping_impl::make_trial_translations: the set of its outcomes.  With no
\* atom and a prim site, line 220 reads atom_type[0] of an empty vector and
\* line 224 column 0 of a matrix without columns, which is undefined
\* behaviour: the build stops, or goes on with what the reads find.
mapping_impl_make_trial_translations(atom_coordinate_cart_in_supercell, atom_type, prim_lattice, prim_site_coordinate_cart, prim_allowed_atom_types, prim_factor_group) ==
  LET internal_translations ==
        make_internal_translations(prim_factor_group, prim_lattice.tol)
      N_atom == Len(atom_type)
      N_prim_site == Len(prim_allowed_atom_types)
      best == choose_best_atom(atom_type, prim_allowed_atom_types, 1, 1,
                               N_prim_site + 1)
      returned(atom, out_of_bounds_read) ==
        LET tests == test_translations(prim_site_coordinate_cart,
                         prim_allowed_atom_types, atom.type, atom.cart, 1)
        IN  [status |-> "returned", returned_early |-> FALSE,
             out_of_bounds_read |-> out_of_bounds_read,
             best_atom_index |-> best.best_atom_index,
             test_translations |-> tests,
             trial_translations |->
               collect_unique_translations(prim_lattice, internal_translations,
                                           tests, 1, <<>>)]
  IN  IF best.returned_early
      THEN {[status |-> "returned", returned_early |-> TRUE,
             out_of_bounds_read |-> FALSE,
             best_atom_index |-> best.best_atom_index,
             test_translations |-> <<>>, trial_translations |-> <<>>]}
      ELSE IF N_atom = 0 /\ N_prim_site >= 1
      THEN {[status |-> "crashed"]}
             \cup {returned(atom, TRUE) : atom \in GarbageAtoms}
      ELSE IF N_atom = 0
      THEN {[status |-> "returned", returned_early |-> FALSE,
             out_of_bounds_read |-> FALSE,
             best_atom_index |-> best.best_atom_index,
             test_translations |-> <<>>, trial_translations |-> <<>>]}
      ELSE {returned([type |-> atom_type[best.best_atom_index],
                      cart |-> atom_coordinate_cart_in_supercell[
                                 best.best_atom_index]], FALSE)}

(***************************************************************************)
(* Site displacements.                                                     *)
(***************************************************************************)
\* Lines 275 to 291 of make_site_displacements: site_displacements[i][j] for
\* site i and atom j.
site_displacements_entries(lattice, supercell_site_coordinate_cart, atom_coordinate_cart_in_supercell, trial_translation) ==
  [site_index \in 1..Len(supercell_site_coordinate_cart) |->
    [atom_index \in 1..Len(atom_coordinate_cart_in_supercell) |->
      robust_pbc_displacement_cart(lattice,
        supercell_site_coordinate_cart[site_index],
        VAdd(atom_coordinate_cart_in_supercell[atom_index], trial_translation))]]

\* make_site_displacements without the test of lines 267 to 273.
make_site_displacements_no_check(lattice, supercell_site_coordinate_cart, atom_coordinate_cart_in_supercell, trial_translation) ==
  CHOOSE r \in
    {IF \E i \in DOMAIN d : \E j \in DOMAIN d[i] : d[i][j] = Diverges
     THEN [status |-> "diverges"]
     ELSE [status |-> "returned", site_displacements |-> d] :
       d \in {site_displacements_entries(lattice,
                supercell_site_coordinate_cart,
                atom_coordinate_cart_in_supercell, trial_translation)}} :
    TRUE

\* mapping_impl::make_site_displacements: it throws, returns the
\* displacements, or never returns when a Voronoi loop never exits.
make_site_displacements(lattice, supercell_site_coordinate_cart, atom_coordinate_cart_in_supercell, trial_translation) ==
  IF Len(atom_coordinate_cart_in_supercell) > Len(supercell_site_coordinate_cart)
  THEN [status |-> "throws",
        what |-> "atom_coordinate_cart_in_supercell.cols() > supercell_site_coordinate_cart.cols()"]
  ELSE CHOOSE r \in
         {IF \E i \in DOMAIN d : \E j \in DOMAIN d[i] : d[i][j] = Diverges
          THEN [status |-> "diverges"]
          ELSE [status |-> "returned", site_displacements |-> d] :
            d \in {site_displacements_entries(lattice,
                     supercell_site_coordinate_cart,
                     atom_coordinate_cart_in_supercell, trial_translation)}} :
         TRUE

(***************************************************************************)
(* The search data records.  A prim (xtal::BasicStructure) is              *)
(* [lattice |-> l, basis |-> sites], a site [cart |-> c, occupant_dof |->  *)
(* molecules], a molecule [name |-> n, atoms |-> number of atoms].  A      *)
(* lattice mapping is [deformation_gradient |-> F,                         *)
(* transformation_matrix_to_super |-> T, reorientation |-> N] with integer *)
(* matrices.  A record holds the records it points to by value: records    *)
(* are never modified.                                                     *)
(***************************************************************************)
\* mapping_impl::make_site_coordinate_cart
make_site_coordinate_cart(prim) ==
  [l \in 1..Len(prim.basis) |-> prim.basis[l].cart]

\* xtal::allowed_molecule_names(prim): the names of the occupants of each site.
allowed_molecule_names(prim) ==
  [b \in 1..Len(prim.basis) |->
    [k \in 1..Len(prim.basis[b].occupant_dof) |->
       prim.basis[b].occupant_dof[k].name]]

\* xtal::BasicStructure::max_possible_vacancies: the number of sites with a
\* vacancy among their occupants.
max_possible_vacancies(prim) ==
  Cardinality({b \in 1..Len(prim.basis) :
                 \E k \in 1..Len(prim.basis[b].occupant_dof) :
                   is_vacancy(prim.basis[b].occupant_dof[k].name)})

\* xtal::generate_invariant_shuffle_modes(factor_group, permutation
\* representation): the modes are not computed by the model, which records
\* the factor group they were made from.
generate_invariant_shuffle_modes(prim, prim_factor_group) ==
  [made_from |-> prim_factor_group]

\* StructureSearchData that keeps the factor group it is given, empty or not.
StructureSearchData_keeps_group(lattice, atom_coordinate_cart, atom_type, structure_factor_group) ==
  IF Len(atom_type) /= Len(atom_coordinate_cart)
  THEN [status |-> "throws",
        what |-> "atom_type.size() != atom_coordinate_cart.cols()"]
  ELSE [status |-> "constructed",
        record |->
          [lattice |-> lattice,
           N_atom |-> Len(atom_coordinate_cart),
           atom_coordinate_cart |-> atom_coordinate_cart,
           atom_type |-> atom_type,
           structure_factor_group |-> structure_factor_group]]

\* The outcome of StructureSearchData::StructureSearchData.
StructureSearchData(lattice, atom_coordinate_cart, atom_type, structure_factor_group) ==
  IF Len(atom_type) /= Len(atom_coordinate_cart)
  THEN [status |-> "throws",
        what |-> "atom_type.size() != atom_coordinate_cart.cols()"]
  ELSE [status |-> "constructed",
        record |->
          [lattice |-> lattice,
           N_atom |-> Len(atom_coordinate_cart),
           atom_coordinate_cart |-> atom_coordinate_cart,
           atom_type |-> atom_type,
           structure_factor_group |->
             IF structure_factor_group = <<>> THEN <<SymOp_identity>>
             ELSE structure_factor_group]]

\* PrimSearchData with the validation of the first occupant of each site only.
PrimSearchData_first_occupant(shared_prim, prim_factor_group, make_prim_sym_invariant_displacement_modes) ==
  LET factor_group == IF prim_factor_group = <<>> THEN <<SymOp_identity>>
                      ELSE prim_factor_group
  IN  IF \E b \in 1..Len(shared_prim.basis) :
           /\ Len(shared_prim.basis[b].occupant_dof) >= 1
           /\ shared_prim.basis[b].occupant_dof[1].atoms > 1
      THEN [status |-> "throws",
            what |-> "only prim with atomic occupants are supported"]
      ELSE [status |-> "constructed",
            record |->
              [shared_prim |-> shared_prim,
               prim_lattice |-> shared_prim.lattice,
               N_prim_site |-> Len(shared_prim.basis),
               prim_site_coordinate_cart |->
                 make_site_coordinate_cart(shared_prim),
               prim_allowed_atom_types |-> allowed_molecule_names(shared_prim),
               vacancies_allowed |-> max_possible_vacancies(shared_prim) /= 0,
               prim_factor_group |-> factor_group,
               prim_sym_invariant_displacement_modes |->
                 IF make_prim_sym_invariant_displacement_modes
                 THEN <<generate_invariant_shuffle_modes(shared_prim,
                                                         factor_group)>>
                 ELSE <<>>]]

\* The outcome of PrimSearchData::PrimSearchData.
PrimSearchData(shared_prim, prim_factor_group, make_prim_sym_invariant_displacement_modes) ==
  LET factor_group == IF prim_factor_group = <<>> THEN <<SymOp_identity>>
                      ELSE prim_factor_group
  IN  IF \E b \in 1..Len(shared_prim.basis) :
           \E k \in 1..Len(shared_prim.basis[b].occupant_dof) :
             shared_prim.basis[b].occupant_dof[k].atoms > 1
      THEN [status |-> "throws",
            what |-> "only prim with atomic occupants are supported"]
      ELSE [status |-> "constructed",
            record |->
              [shared_prim |-> shared_prim,
               prim_lattice |-> shared_prim.lattice,
               N_prim_site |-> Len(shared_prim.basis),
               prim_site_coordinate_cart |->
                 make_site_coordinate_cart(shared_prim),
               prim_allowed_atom_types |-> allowed_molecule_names(shared_prim),
               vacancies_allowed |-> max_possible_vacancies(shared_prim) /= 0,
               prim_factor_group |-> factor_group,
               prim_sym_invariant_displacement_modes |->
                 IF make_prim_sym_invariant_displacement_modes
                 THEN <<generate_invariant_shuffle_modes(shared_prim,
                                                         factor_group)>>
                 ELSE <<>>]]

\* xtal::make_superlattice(prim_lattice, T): the lattice of column matrix
\* L * T, with the tolerance of the prim lattice.
make_superlattice(prim_lattice, transformation_matrix_to_super) ==
  Lattice(MatMul(prim_lattice.lat_column_mat, transformation_matrix_to_super),
          prim_lattice.tol)

\* xtal::UnitCellCoordIndexConverter(T, N_prim_site) for a diagonal T with
\* positive entries: total_sites, and for each linear index (from 1) the
\* sublattice (from 1) and the unit cell; the sites of a sublattice are
\* consecutive.
UnitCellCoordIndexConverter(transformation_matrix_to_super, N_prim_site) ==
  LET T == transformation_matrix_to_super
      volume == Abs(Det3(T))
      unitcell(n) == <<n % T[1][1], (n \div T[1][1]) % T[2][2],
                       n \div (T[1][1] * T[2][2])>>
  IN  [total_sites |-> volume * N_prim_site,
       uccoord |-> [l \in 1..(volume * N_prim_site) |->
                      [sublattice |-> ((l - 1) \div volume) + 1,
                       unitcell |-> unitcell((l - 1) % volume)]]]

\* make_supercell_site_coordinate_cart with the unit cell added as it is, not
\* as a combination of the prim lattice vectors.
make_supercell_site_coordinate_cart_no_lattice(unitcellcoord_index_converter, prim_site_coordinate_cart, prim_lattice) ==
  [l \in 1..unitcellcoord_index_converter.total_sites |->
     VAdd(prim_site_coordinate_cart[
            unitcellcoord_index_converter.uccoord[l].sublattice],
          IntVec(unitcellcoord_index_converter.uccoord[l].unitcell))]

\* mapping_impl::make_supercell_site_coordinate_cart
make_supercell_site_coordinate_cart(unitcellcoord_index_converter, prim_site_coordinate_cart, prim_lattice) ==
  [l \in 1..unitcellcoord_index_converter.total_sites |->
     VAdd(prim_site_coordinate_cart[
            unitcellcoord_index_converter.uccoord[l].sublattice],
          MatVec(prim_lattice.lat_column_mat,
                 IntVec(unitcellcoord_index_converter.uccoord[l].unitcell)))]

\* mapping_impl::make_supercell_allowed_atom_types
make_supercell_allowed_atom_types(unitcellcoord_index_converter, prim_allowed_atom_types) ==
  [l \in 1..unitcellcoord_index_converter.total_sites |->
     prim_allowed_atom_types[
       unitcellcoord_index_converter.uccoord[l].sublattice]]

\* LatticeMappingSearchData::LatticeMappingSearchData.  The entries of T and
\* of N are whole numbers, which lround leaves as they are.
LatticeMappingSearchData(prim_data, structure_data, lattice_mapping) ==
  LET transformation_matrix_to_super ==
        MatMul(lattice_mapping.transformation_matrix_to_super,
               lattice_mapping.reorientation)
      unitcellcoord_index_converter ==
        UnitCellCoordIndexConverter(transformation_matrix_to_super,
                                    prim_data.N_prim_site)
  IN  [prim_data |-> prim_data,
       structure_data |-> structure_data,
       lattice_mapping |-> lattice_mapping,
       transformation_matrix_to_super |-> transformation_matrix_to_super,
       supercell_lattice |->
         make_superlattice(prim_data.prim_lattice,
                           transformation_matrix_to_super),
       unitcellcoord_index_converter |-> unitcellcoord_index_converter,
       N_supercell_site |-> unitcellcoord_index_converter.total_sites,
       atom_coordinate_cart_in_supercell |->
         [j \in 1..Len(structure_data.atom_coordinate_cart) |->
            InvMatVec(lattice_mapping.deformation_gradient,
                      structure_data.atom_coordinate_cart[j])],
       supercell_site_coordinate_cart |->
         make_supercell_site_coordinate_cart(unitcellcoord_index_converter,
           prim_data.prim_site_coordinate_cart, prim_data.prim_lattice),
       supercell_allowed_atom_types |->
         make_supercell_allowed_atom_types(unitcellcoord_index_converter,
           prim_data.prim_allowed_atom_types)]

\* make_trial_translations(lattice_mapping_data)
make_trial_translations(lattice_mapping_data) ==
  mapping_impl_make_trial_translations(
    lattice_mapping_data.atom_coordinate_cart_in_supercell,
    lattice_mapping_data.structure_data.atom_type,
    lattice_mapping_data.prim_data.prim_lattice,
    lattice_mapping_data.prim_data.prim_site_coordinate_cart,
    lattice_mapping_data.prim_data.prim_allowed_atom_types,
    lattice_mapping_data.prim_data.prim_factor_group)

\* AtomMappingSearchData::AtomMappingSearchData: the set of its outcomes.
AtomMappingSearchData(lattice_mapping_data, trial_translation_cart, atom_mapping_cost_f, infinity) ==
  LET displacements ==
        make_site_displacements(lattice_mapping_data.supercell_lattice,
          lattice_mapping_data.supercell_site_coordinate_cart,
          lattice_mapping_data.atom_coordinate_cart_in_supercell,
          trial_translation_cart)
      constructed(cost) ==
        IF cost.status /= "returned" THEN cost
        ELSE [status |-> "constructed",
              record |->
                [lattice_mapping_data |-> lattice_mapping_data,
                 trial_translation_cart |-> trial_translation_cart,
                 site_displacements |-> displacements.site_displacements,
                 cost_matrix |-> cost.cost_matrix]]
  IN  IF displacements.status /= "returned" THEN {displacements}
      ELSE {constructed(cost) :
              cost \in make_cost_matrix(atom_mapping_cost_f,
                         displacements.site_displacements,
                         lattice_mapping_data.structure_data.atom_type,
                         lattice_mapping_data.supercell_allowed_atom_types,
                         infinity)}

(***************************************************************************)
(* The inputs of the model.                                                *)
(***************************************************************************)
\* Coordinates are multiples of 1/CoordDen, at most CoordMax/CoordDen in x, y
\* and 1/CoordDen in z.
CoordDen == 2

CoordMax == 3

\* Lattice vectors (columns): cubic; the same cubic lattice in a skewed basis;
\* tetragonal; base-centred.
LatticeMats ==
  { IdentityMat,
    <<<<1, 1, 0>>, <<0, 1, 0>>, <<0, 0, 1>>>>,
    <<<<2, 0, 0>>, <<0, 1, 0>>, <<0, 0, 1>>>>,
    <<<<2, 1, 0>>, <<0, 2, 0>>, <<0, 0, 2>>>> }

CartPoints ==
  {Vec(<<x, y, z>>, CoordDen) :
     x \in -CoordMax..CoordMax, y \in -CoordMax..CoordMax, z \in -1..1}

\* A positive tolerance, and a negative (invalid, but accepted) one.
Tolerances == {1, -1}

Lattices == {Lattice(M, tol) : M \in LatticeMats, tol \in Tolerances}

PbcSites == {ZeroVec, Vec(<<1, 0, 0>>, CoordDen)}

\* At most MaxSite sites and MaxAtom atoms.
MaxSite == 2

MaxAtom == 2

\* The value passed as infinity: above every cost of the model.
InfinityValue == 1000000

AtomTypes == {"A", "B", "Va", "va"}

\* The atom types allowed on a site.
AllowedAtomTypes == {<<"A">>, <<"A", "B">>, <<"B", "va">>, <<>>}

AtomTypeVectors == UNION {[1..n -> AtomTypes] : n \in 0..MaxAtom}

AllowedAtomTypeVectors == UNION {[1..n -> AllowedAtomTypes] : n \in 0..MaxSite}

\* Atom positions of the displacement tables passed to make_cost_matrix;
\* the sites of a table are at (0, 0, 0), (1, 0, 0), ...
TableAtoms == {ZeroVec, Vec(<<1, 1, 0>>, CoordDen)}

\* The table of N_site rows of the displacements from the sites to the atoms,
\* with a row too many ("extra_row"), an element too many in its first row
\* ("extra_element"), or well formed ("").
DisplacementTable(N_site, atom_cart, malformed) ==
  LET row(i) == [j \in 1..Len(atom_cart) |->
                   VSub(atom_cart[j], IntVec(<<i - 1, 0, 0>>))]
      table == [i \in 1..N_site |->
                  IF i = 1 /\ malformed = "extra_element"
                  THEN Append(row(i), ZeroVec) ELSE row(i)]
  IN  IF malformed = "extra_row" THEN Append(table, row(N_site + 1)) ELSE table

\* Prim lattices (with a positive tolerance): cubic and tetragonal.
PrimLattices ==
  {Lattice(M, 1) : M \in {IdentityMat, <<<<2, 0, 0>>, <<0, 1, 0>>, <<0, 0, 1>>>>}}

\* Half of the first lattice vector.
HalfVector(M) == Vec(<<M[1][1], M[2][1], M[3][1]>>, 2)

\* Factor groups of a prim with lattice vectors M: the identity alone; with
\* the translation by half of the first lattice vector; with the inversion.
FactorGroups(M) ==
  { <<SymOp_identity>>,
    <<SymOp_identity, [matrix |-> IdentityMat, translation |-> HalfVector(M)]>>,
    <<SymOp_identity,
      [matrix |-> <<<<-1, 0, 0>>, <<0, -1, 0>>, <<0, 0, -1>>>>,
       translation |-> ZeroVec]>> }

\* The sites of a prim are at 0, s, 2 s, ... for a spacing s.
PrimSiteSpacings == {Vec(<<1, 0, 0>>, CoordDen), IntVec(<<1, 0, 0>>)}

PrimSiteCoordinates(N_prim_site, spacing) ==
  [b \in 1..N_prim_site |-> VScale(b - 1, spacing)]

PrimAllowedAtomTypes == {<<"A">>, <<"A", "B">>, <<"B", "va">>}

\* The atoms of a structure are at o, o + (0, 1/CoordDen, 0), ... for an
\* offset o.
AtomOffsets == {ZeroVec, Vec(<<1, 1, 0>>, CoordDen)}

AtomCoordinates(N_atom, offset) ==
  [j \in 1..N_atom |-> VAdd(offset, Vec(<<0, j - 1, 0>>, CoordDen))]

StructureAtomTypes == {"A", "B", "Va"}

\* Translations passed to is_new_unique_translation.
TranslationPoints ==
  {Vec(<<x, y, 0>>, 2) : x \in -2..2, y \in 0..1}

\* The prims of Spec: N sites at 0, (1/CoordDen, 0, 0), ... whose occupants
\* are A on every site ("A"); A and B on the odd sites, B and a vacancy on
\* the even ones ("mixed"); or A and a molecule of two atoms ("molecule").
OccupantPatterns == {"A", "mixed", "molecule"}

PrimOccupants(b, pattern) ==
  CASE pattern = "A" -> <<[name |-> "A", atoms |-> 1]>>
    [] pattern = "mixed" /\ b % 2 = 1 ->
         <<[name |-> "A", atoms |-> 1], [name |-> "B", atoms |-> 1]>>
    [] pattern = "mixed" /\ b % 2 = 0 ->
         <<[name |-> "B", atoms |-> 1], [name |-> "va", atoms |-> 0]>>
    [] pattern = "molecule" ->
         <<[name |-> "A", atoms |-> 1], [name |-> "A2", atoms |-> 2]>>

SharedPrims ==
  {[lattice |-> lattice,
    basis |-> [b \in 1..N |->
                 [cart |-> VScale(b - 1, Vec(<<1, 0, 0>>, CoordDen)),
                  occupant_dof |-> PrimOccupants(b, pattern)]]] :
     lattice \in PrimLattices, N \in 1..MaxSite, pattern \in OccupantPatterns}

\* The lattice mappings of Spec: F, T and N.
LatticeMappings ==
  {[deformation_gradient |-> F, transformation_matrix_to_super |-> T,
    reorientation |-> IdentityMat] :
     F \in {IdentityMat, <<<<2, 0, 0>>, <<0, 1, 0>>, <<0, 0, 1>>>>},
     T \in {IdentityMat, <<<<2, 0, 0>>, <<0, 1, 0>>, <<0, 0, 1>>>>}}

\* The factor groups passed to StructureSearchData: none; the inversion after
\* the identity; the inversion alone.
StructureFactorGroups ==
  LET inversion == [matrix |-> <<<<-1, 0, 0>>, <<0, -1, 0>>, <<0, 0, -1>>>>,
                    translation |-> ZeroVec]
  IN  {<<>>, <<SymOp_identity, inversion>>, <<inversion>>}

\* At most MaxRecord records on the heap, and MaxHolder handles of callers.
MaxRecord == 4

MaxHolder == 3

Addresses == 1..MaxRecord

RecordsIdle ==
  /\ heap = [a \in Addresses |-> Null]
  /\ holders = [a \in Addresses |-> 0]
  /\ prim_search_data = Null
  /\ structure_search_data = Null
  /\ lattice_mapping_search_data = Null
  /\ trial_translations_made = Null
  /\ atom_mapping_search_data = Null

(***************************************************************************)
(* PbcSpec: calls of the two displacement functions on drawn inputs.       *)
(***************************************************************************)
PbcInit ==
  /\ call = [fn |-> "none"]
  /\ voronoi = Null
  /\ RecordsIdle

CallFastPbc ==
  /\ call.fn = "none"
  /\ \E lattice \in Lattices, site_cart \in PbcSites, atom_cart \in CartPoints :
    /\ call' = [fn |-> "fast_pbc_displacement_cart", lattice |-> lattice,
                site_cart |-> site_cart, atom_cart |-> atom_cart,
                ret |-> fast_pbc_displacement_cart(lattice, site_cart, atom_cart)]
    /\ UNCHANGED <<voronoi, records>>

CallRobustPbc ==
  /\ call.fn = "none"
  /\ \E lattice \in Lattices, site_cart \in PbcSites, atom_cart \in CartPoints :
    /\ call' = [fn |-> "robust_pbc_displacement_cart", lattice |-> lattice,
                site_cart |-> site_cart, atom_cart |-> atom_cart,
                skipped |-> ~ enters_voronoi_loop(lattice,
                     fast_pbc_displacement_cart(lattice, site_cart, atom_cart)),
                ret |-> robust_pbc_displacement_cart(lattice, site_cart, atom_cart)]
    /\ UNCHANGED <<voronoi, records>>

PbcNext == CallFastPbc \/ CallRobustPbc

PbcSpec == PbcInit /\ [][PbcNext]_vars

\* C5: robust_pbc_displacement_cart returns a vector d that differs from
\* a - s by a translation of the lattice and lies in the Wigner-Seitz cell
\* (max_voronoi_measure(d) <= 1 + tol), whether the Voronoi loop ran or was
\* skipped.
C5_robust_minimum_image ==
  (call.fn = "robust_pbc_displacement_cart" /\ call.ret /= Diverges) =>
    /\ InvMatVec(call.lattice.lat_column_mat,
                 VSub(call.ret, VSub(call.atom_cart, call.site_cart))).d = 1
    /\ ~ GreaterWithTol(max_voronoi_measure(call.lattice, call.ret).maxproj,
                        RatInt(1), call.lattice.tol)

(***************************************************************************)
(* VoronoiSpec: one call of robust_pbc_displacement_cart, statement by     *)
(* statement (voronoi.pc is the line about to run).  The call runs on its  *)
(* thread of control and always takes its next step, which is the fairness *)
(* of the specification.                                                   *)
(***************************************************************************)
VoronoiInit ==
  /\ call = [fn |-> "none"]
  /\ RecordsIdle
  /\ voronoi = [pc |-> "idle"]

\* The caller passes a lattice, a site and an atom.
RobustCall ==
  /\ voronoi.pc = "idle"
  /\ \E lattice \in Lattices, site_cart \in PbcSites, atom_cart \in CartPoints :
       voronoi' = [pc |-> "66", lattice |-> lattice, site_cart |-> site_cart,
                   atom_cart |-> atom_cart, disp_cart |-> ZeroVec,
                   disp_frac |-> ZeroVec, frac_lattice_translation |-> ZeroVec,
                   maxproj |-> RatInt(0), lattice_trans |-> ZeroVec]
  /\ UNCHANGED <<call, records>>

Line66 ==
  /\ voronoi.pc = "66"
  /\ voronoi' = [voronoi EXCEPT
       !.disp_cart = fast_disp_cart(voronoi.site_cart, voronoi.atom_cart),
       !.pc = "67"]
  /\ UNCHANGED <<call, records>>

Line67 ==
  /\ voronoi.pc = "67"
  /\ voronoi' = [voronoi EXCEPT
       !.disp_frac = fast_disp_frac(voronoi.lattice, voronoi.disp_cart),
       !.pc = "68"]
  /\ UNCHANGED <<call, records>>

Line68 ==
  /\ voronoi.pc = "68"
  /\ voronoi' = [voronoi EXCEPT
       !.frac_lattice_translation =
           fast_frac_lattice_translation(voronoi.disp_frac),
       !.pc = "69"]
  /\ UNCHANGED <<call, records>>

Line69 ==
  /\ voronoi.pc = "69"
  /\ voronoi' = [voronoi EXCEPT
       !.disp_frac = fast_disp_frac_reduced(voronoi.disp_frac,
                                            voronoi.frac_lattice_translation),
       !.pc = "70"]
  /\ UNCHANGED <<call, records>>

\* Lines 70 and 81-82: the fast form returns into disp_cart.
Line70 ==
  /\ voronoi.pc = "70"
  /\ voronoi' = [voronoi EXCEPT
       !.disp_cart = fast_return(voronoi.lattice, voronoi.disp_frac),
       !.pc = "83"]
  /\ UNCHANGED <<call, records>>

\* Line 83: the test of the norm against the inner Voronoi radius.
Line83 ==
  /\ voronoi.pc = "83"
  /\ voronoi' = [voronoi EXCEPT
       !.pc = IF enters_voronoi_loop(voronoi.lattice, voronoi.disp_cart)
              THEN "85" ELSE "90"]
  /\ UNCHANGED <<call, records>>

\* Lines 85-86: the call of max_voronoi_measure and the loop condition.
Line85 ==
  /\ voronoi.pc = "85"
  /\ \E m \in {max_voronoi_measure(voronoi.lattice, voronoi.disp_cart)} :
       voronoi' = [voronoi EXCEPT
           !.maxproj = m.maxproj,
           !.lattice_trans = m.lattice_trans,
           !.pc = IF GreaterWithTol(m.maxproj, RatInt(1), voronoi.lattice.tol)
                  THEN "87" ELSE "90"]
  /\ UNCHANGED <<call, records>>

\* Line 87: disp_cart -= lattice_trans
Line87 ==
  /\ voronoi.pc = "87"
  /\ voronoi' = [voronoi EXCEPT
       !.disp_cart = VSub(voronoi.disp_cart, voronoi.lattice_trans),
       !.pc = "85"]
  /\ UNCHANGED <<call, records>>

\* Line 90: return disp_cart
Line90 ==
  /\ voronoi.pc = "90"
  /\ voronoi' = [voronoi EXCEPT !.pc = "returned"]
  /\ UNCHANGED <<call, records>>

VoronoiNext ==
  \/ RobustCall
  \/ Line66 \/ Line67 \/ Line68 \/ Line69 \/ Line70
  \/ Line83 \/ Line85 \/ Line87 \/ Line90

VoronoiSpec == VoronoiInit /\ [][VoronoiNext]_vars /\ WF_vars(VoronoiNext)

\* C10: the Voronoi reduction always terminates: a call of
\* robust_pbc_displacement_cart returns, or fails with NumericalTolerance once
\* its loop has run a bounded number of times.
C10_voronoi_reduction_terminates ==
  <>(voronoi.pc \in {"returned", "NumericalTolerance"})

(***************************************************************************)
(* CostSpec: calls of make_atom_mapping_cost and make_cost_matrix on drawn *)
(* inputs.                                                                 *)
(***************************************************************************)
CostInit ==
  /\ call = [fn |-> "none"]
  /\ voronoi = Null
  /\ RecordsIdle

CallMakeAtomMappingCost ==
  /\ call.fn = "none"
  /\ \E displacement \in CartPoints, atom_type \in AtomTypes,
        allowed_atom_types \in AllowedAtomTypes,
        infinity \in {RatInt(InfinityValue), Rat(1, 4)} :
       call' = [fn |-> "make_atom_mapping_cost", displacement |-> displacement,
                atom_type |-> atom_type,
                allowed_atom_types |-> allowed_atom_types,
                infinity |-> infinity,
                ret |-> make_atom_mapping_cost(displacement, atom_type,
                                               allowed_atom_types, infinity)]
  /\ UNCHANGED <<voronoi, records>>

CallMakeCostMatrix ==
  /\ call.fn = "none"
  /\ \E atom_type \in AtomTypeVectors,
        allowed_atom_types \in AllowedAtomTypeVectors,
        malformed \in {"", "extra_row", "extra_element"} :
       \E atom_cart \in [1..Len(atom_type) -> TableAtoms] :
         \E site_displacements \in
              {DisplacementTable(Len(allowed_atom_types), atom_cart, malformed)} :
           \E ret \in make_cost_matrix("make_atom_mapping_cost",
                          site_displacements, atom_type, allowed_atom_types,
                          RatInt(InfinityValue)) :
             call' = [fn |-> "make_cost_matrix", f |-> "make_atom_mapping_cost",
                      site_displacements |-> site_displacements,
                      atom_type |-> atom_type,
                      allowed_atom_types |-> allowed_atom_types,
                      infinity |-> RatInt(InfinityValue),
                      ret |-> ret]
  /\ UNCHANGED <<voronoi, records>>

CostNext == CallMakeAtomMappingCost \/ CallMakeCostMatrix

CostSpec == CostInit /\ [][CostNext]_vars

\* C1: make_atom_mapping_cost(d, t, S, INF) returns 0 when t is a vacancy and
\* S contains a vacancy label, INF when t is a vacancy and S contains no
\* vacancy label, INF when t is not a vacancy and is not in S, and the squared
\* length of d otherwise.
C1_cost_cases ==
  call.fn = "make_atom_mapping_cost" =>
    LET t == call.atom_type
        S == {call.allowed_atom_types[k] : k \in 1..Len(call.allowed_atom_types)}
        d == call.displacement
        vacancy_labels == {"VA", "va", "Va"}
    IN  /\ (t \in vacancy_labels /\ S \cap vacancy_labels /= {})
              => call.ret = [n |-> 0, d |-> 1]
        /\ (t \in vacancy_labels /\ S \cap vacancy_labels = {})
              => call.ret = call.infinity
        /\ (t \notin vacancy_labels /\ t \notin S) => call.ret = call.infinity
        /\ (t \notin vacancy_labels /\ t \in S)
              => /\ call.ret.n * d.d * d.d =
                      call.ret.d * (d.n[1] * d.n[1] + d.n[2] * d.n[2]
                                      + d.n[3] * d.n[3])
                 /\ call.ret.d > 0

\* A vacancy atom "Va" costed 0 on a site that allows the vacancy label "va"
\* and not "Va".
C1_witness ==
  /\ call.fn = "make_atom_mapping_cost"
  /\ call.atom_type = "Va"
  /\ call.allowed_atom_types = <<"B", "va">>
  /\ call.ret = [n |-> 0, d |-> 1]
  /\ call.infinity /= call.ret

\* C2: for N_atom <= N_site (and site_displacements of N_site rows of N_atom
\* elements) make_cost_matrix returns an N_site x N_site matrix whose entry
\* (i, j) is the cost function on (site_displacements[i][j], atom_type[j],
\* allowed_atom_types[i], infinity) for j < N_atom and on (zero, a vacancy,
\* allowed_atom_types[i], infinity) for N_atom <= j < N_site.
C2_cost_matrix_entries ==
  (/\ call.fn = "make_cost_matrix"
   /\ Len(call.atom_type) <= Len(call.allowed_atom_types)
   /\ Len(call.site_displacements) = Len(call.allowed_atom_types)
   /\ \A i \in 1..Len(call.site_displacements) :
        Len(call.site_displacements[i]) = Len(call.atom_type))
  => LET N_site == Len(call.allowed_atom_types)
         N_atom == Len(call.atom_type)
     IN  /\ call.ret.status = "returned"
         /\ ~ call.ret.out_of_bounds_write
         /\ DOMAIN call.ret.cost_matrix = 1..N_site
         /\ \A i \in 1..N_site :
              /\ DOMAIN call.ret.cost_matrix[i] = 1..N_site
              /\ \A j \in 1..N_atom :
                   call.ret.cost_matrix[i][j] =
                     make_atom_mapping_cost(call.site_displacements[i][j],
                         call.atom_type[j], call.allowed_atom_types[i],
                         call.infinity)
              /\ \A j \in (N_atom + 1)..N_site :
                   \E vacancy \in {"VA", "va", "Va"} :
                     call.ret.cost_matrix[i][j] =
                       make_atom_mapping_cost(ZeroVec, vacancy,
                           call.allowed_atom_types[i], call.infinity)

\* Two sites and one atom "A": a real column with a squared length and an
\* infinity, and a padded column with a 0 and an infinity.
C2_witness ==
  /\ call.fn = "make_cost_matrix"
  /\ call.atom_type = <<"A">>
  /\ call.allowed_atom_types = <<<<"A">>, <<"B", "va">>>>
  /\ call.ret.status = "returned"
  /\ call.ret.cost_matrix[1][1] = [n |-> 1, d |-> 2]
  /\ call.ret.cost_matrix[2][1] = call.infinity
  /\ call.ret.cost_matrix[1][2] = call.infinity
  /\ call.ret.cost_matrix[2][2] = [n |-> 0, d |-> 1]

(***************************************************************************)
(* TrialSpec: calls of is_new_unique_translation and of                    *)
(* mapping_impl::make_trial_translations on drawn inputs.                  *)
(***************************************************************************)
TrialInit ==
  /\ call = [fn |-> "none"]
  /\ voronoi = Null
  /\ RecordsIdle

CallIsNewUniqueTranslation ==
  /\ call.fn = "none"
  /\ \E prim_lattice \in PrimLattices, test_translation_cart \in TranslationPoints :
       \E prim_factor_group \in FactorGroups(prim_lattice.lat_column_mat),
          current_unique_translations_cart \in
            {<<>>} \cup {<<y>> : y \in TranslationPoints}
                   \cup {<<ZeroVec, y>> : y \in TranslationPoints} :
         \E internal_translations_cart \in
              {make_internal_translations(prim_factor_group, prim_lattice.tol)} :
           call' = [fn |-> "is_new_unique_translation",
                    prim_lattice |-> prim_lattice,
                    test_translation_cart |-> test_translation_cart,
                    internal_translations_cart |-> internal_translations_cart,
                    current_unique_translations_cart |->
                      current_unique_translations_cart,
                    ret |-> is_new_unique_translation(prim_lattice,
                              test_translation_cart, internal_translations_cart,
                              current_unique_translations_cart)]
  /\ UNCHANGED <<voronoi, records>>

CallMakeTrialTranslations ==
  /\ call.fn = "none"
  /\ \E prim_lattice \in PrimLattices, spacing \in PrimSiteSpacings,
        offset \in AtomOffsets, N_prim_site \in 0..MaxSite, N_atom \in 0..MaxAtom :
       \E prim_factor_group \in FactorGroups(prim_lattice.lat_column_mat),
          prim_allowed_atom_types \in [1..N_prim_site -> PrimAllowedAtomTypes],
          atom_type \in [1..N_atom -> StructureAtomTypes] :
         \E ret \in mapping_impl_make_trial_translations(
                      AtomCoordinates(N_atom, offset), atom_type, prim_lattice,
                      PrimSiteCoordinates(N_prim_site, spacing),
                      prim_allowed_atom_types, prim_factor_group),
            again \in mapping_impl_make_trial_translations(
                        AtomCoordinates(N_atom, offset), atom_type, prim_lattice,
                        PrimSiteCoordinates(N_prim_site, spacing),
                        prim_allowed_atom_types, prim_factor_group) :
           call' = [fn |-> "make_trial_translations",
                    atom_coordinate_cart_in_supercell |->
                      AtomCoordinates(N_atom, offset),
                    atom_type |-> atom_type,
                    prim_lattice |-> prim_lattice,
                    prim_site_coordinate_cart |->
                      PrimSiteCoordinates(N_prim_site, spacing),
                    prim_allowed_atom_types |-> prim_allowed_atom_types,
                    prim_factor_group |-> prim_factor_group,
                    internal_translations |->
                      make_internal_translations(prim_factor_group,
                                                 prim_lattice.tol),
                    ret |-> ret,
                    again |-> [status |-> again.status,
                               trial_translations |->
                                 IF again.status = "returned"
                                 THEN again.trial_translations ELSE <<>>]]
  /\ UNCHANGED <<voronoi, records>>

TrialNext == CallIsNewUniqueTranslation \/ CallMakeTrialTranslations

TrialSpec == TrialInit /\ [][TrialNext]_vars

C7_kept_iff_not_equivalent ==
  call.fn = "is_new_unique_translation" =>
    (call.ret <=>
       ~ \E k \in 1..Len(call.internal_translations_cart) :
           \E m \in 1..Len(call.current_unique_translations_cart) :
             is_integer(
               InvMatVec(call.prim_lattice.lat_column_mat,
                         VSub(VAdd(call.test_translation_cart,
                                   call.internal_translations_cart[k]),
                              call.current_unique_translations_cart[m])),
               call.prim_lattice.tol))

\* C8: the list make_trial_translations returns is minimal (no two of its
\* translations differ by an internal translation plus a prim lattice vector)
\* and covering (every translation considered differs from a returned one by
\* an internal translation plus a prim lattice vector).
C8_minimal_and_covering ==
  (/\ call.fn = "make_trial_translations"
   /\ call.ret.status = "returned"
   /\ ~ call.ret.out_of_bounds_read)
  => LET T == call.ret.trial_translations
         U == call.internal_translations
         equivalent(x, y) ==
           \E k \in 1..Len(U) :
             InvMatVec(call.prim_lattice.lat_column_mat,
                       VSub(VSub(x, y), U[k])).d = 1
     IN  /\ \A i \in 1..Len(T) : \A j \in 1..Len(T) :
               i /= j => ~ equivalent(T[i], T[j])
         /\ \A c \in 1..Len(call.ret.test_translations) :
               \E i \in 1..Len(T) :
                 \/ equivalent(call.ret.test_translations[c], T[i])
                 \/ equivalent(T[i], call.ret.test_translations[c])

Init ==
  /\ call = [fn |-> "none"]
  /\ voronoi = Null
  /\ RecordsIdle

ConstructPrimSearchData ==
  /\ prim_search_data = Null
  /\ \E shared_prim \in SharedPrims :
       \E prim_factor_group \in
            {<<>>} \cup (FactorGroups(shared_prim.lattice.lat_column_mat)
                           \ {<<SymOp_identity>>}),
          make_prim_sym_invariant_displacement_modes \in BOOLEAN :
         /\ make_prim_sym_invariant_displacement_modes
              => Len(prim_factor_group) = 2 /\ Len(shared_prim.basis) = 1
         /\ prim_search_data' =
              PrimSearchData(shared_prim, prim_factor_group,
                             make_prim_sym_invariant_displacement_modes)
         /\ call' = [fn |-> "PrimSearchData", shared_prim |-> shared_prim,
                     prim_factor_group |-> prim_factor_group]
  /\ UNCHANGED <<voronoi, heap, holders, structure_search_data,
                 lattice_mapping_search_data, trial_translations_made,
                 atom_mapping_search_data>>

\* The structures of Spec: N_atom atoms, with as many types, or one type too
\* many or too few.
ConstructStructureSearchData ==
  /\ structure_search_data = Null
  /\ \E N_atom \in 0..MaxAtom, offset \in AtomOffsets, N_type_less_N_atom \in -1..1 :
       \E atom_type \in [1..(N_atom + N_type_less_N_atom) -> {"A", "Va"}],
          structure_factor_group \in StructureFactorGroups :
         /\ N_type_less_N_atom /= 0 => offset = ZeroVec
         /\ structure_factor_group /= <<>> => offset = ZeroVec
         /\ structure_search_data' =
              StructureSearchData(Lattice(IdentityMat, 1),
                                  AtomCoordinates(N_atom, offset), atom_type,
                                  structure_factor_group)
         /\ call' = [fn |-> "StructureSearchData",
                     atom_coordinate_cart |-> AtomCoordinates(N_atom, offset),
                     atom_type |-> atom_type,
                     structure_factor_group |-> structure_factor_group]
  /\ UNCHANGED <<voronoi, heap, holders, prim_search_data, lattice_mapping_search_data,
                 trial_translations_made, atom_mapping_search_data>>

ConstructLatticeMappingSearchData ==
  /\ lattice_mapping_search_data = Null
  /\ prim_search_data.status = "constructed"
  /\ structure_search_data.status = "constructed"
  /\ \E lattice_mapping \in LatticeMappings :
       lattice_mapping_search_data' =
         [status |-> "constructed",
          record |-> LatticeMappingSearchData(prim_search_data.record,
                        structure_search_data.record, lattice_mapping)]
  /\ UNCHANGED <<call, voronoi, heap, holders, prim_search_data, structure_search_data,
                 trial_translations_made, atom_mapping_search_data>>

MakeTrialTranslations ==
  /\ trial_translations_made = Null
  /\ lattice_mapping_search_data.status = "constructed"
  /\ \E ret \in make_trial_translations(lattice_mapping_search_data.record) :
       trial_translations_made' = ret
  /\ UNCHANGED <<call, voronoi, heap, holders, prim_search_data, structure_search_data,
                 lattice_mapping_search_data, atom_mapping_search_data>>

\* The trial translation passed is one of those made, or zero.
ConstructAtomMappingSearchData ==
  /\ atom_mapping_search_data = Null
  /\ lattice_mapping_search_data.status = "constructed"
  /\ \E trial_translation_cart \in
          {ZeroVec} \cup
          (IF trial_translations_made.status = "returned"
           THEN {trial_translations_made.trial_translations[k] :
                   k \in 1..Len(trial_translations_made.trial_translations)}
           ELSE {}) :
       \E outcome \in AtomMappingSearchData(lattice_mapping_search_data.record,
                         trial_translation_cart, "make_atom_mapping_cost",
                         RatInt(InfinityValue)) :
         atom_mapping_search_data' = outcome
  /\ UNCHANGED <<call, voronoi, heap, holders, prim_search_data, structure_search_data,
                 lattice_mapping_search_data, trial_translations_made>>

Next ==
  \/ ConstructPrimSearchData
  \/ ConstructStructureSearchData
  \/ ConstructLatticeMappingSearchData
  \/ MakeTrialTranslations
  \/ ConstructAtomMappingSearchData

Spec == Init /\ [][Next]_vars

C4_site_displacements_minimum_image ==
  atom_mapping_search_data.status = "constructed" =>
    LET data == atom_mapping_search_data.record
        lattice == data.lattice_mapping_data.supercell_lattice
        site == data.lattice_mapping_data.supercell_site_coordinate_cart
        atom == data.lattice_mapping_data.atom_coordinate_cart_in_supercell
    IN  \A i \in 1..Len(site) : \A j \in 1..Len(atom) :
          /\ InvMatVec(lattice.lat_column_mat,
               VSub(VAdd(site[i], data.site_displacements[i][j]),
                    VAdd(atom[j], data.trial_translation_cart))).d = 1
          /\ ~ GreaterWithTol(
                 max_voronoi_measure(lattice,
                                     data.site_displacements[i][j]).maxproj,
                 RatInt(1), lattice.tol)

\* C11: construction rejects invalid input with an error and makes no record:
\* StructureSearchData throws exactly when the number of atom types differs
\* from the number of atom coordinate columns, PrimSearchData exactly when
\* some occupant allowed on some prim site has more than one atom.
C11_construction_rejects_invalid_input ==
  /\ call.fn = "StructureSearchData" =>
       /\ structure_search_data.status \in {"throws", "constructed"}
       /\ structure_search_data.status = "throws"
            <=> Len(call.atom_type) /= Len(call.atom_coordinate_cart)
       /\ structure_search_data.status = "throws"
            => "record" \notin DOMAIN structure_search_data
  /\ call.fn = "PrimSearchData" =>
       /\ prim_search_data.status \in {"throws", "constructed"}
       /\ prim_search_data.status = "throws"
            <=> \E b \in 1..Len(call.shared_prim.basis) :
                  \E k \in 1..Len(call.shared_prim.basis[b].occupant_dof) :
                    call.shared_prim.basis[b].occupant_dof[k].atoms > 1
       /\ prim_search_data.status = "throws"
            => "record" \notin DOMAIN prim_search_data

\* A structure with a type too many was rejected, and then a prim of two
\* sites whose second occupant is a molecule of two atoms.
C11_witness ==
  /\ structure_search_data.status = "throws"
  /\ call.fn = "PrimSearchData"
  /\ Len(call.shared_prim.basis) = 2
  /\ Len(call.shared_prim.basis[2].occupant_dof) = 2
  /\ call.shared_prim.basis[2].occupant_dof[1].atoms = 1
  /\ call.shared_prim.basis[2].occupant_dof[2].atoms = 2
  /\ prim_search_data.status = "throws"

\* C12: after construction the factor group of a StructureSearchData and of a
\* PrimSearchData is not empty: it is the identity alone when the caller gave
\* an empty group, and otherwise the operations given, in the order given.
C12_factor_group_default ==
  /\ (call.fn = "StructureSearchData"
      /\ structure_search_data.status = "constructed") =>
       LET group == structure_search_data.record.structure_factor_group
       IN  /\ Len(group) >= 1
           /\ call.structure_factor_group = <<>> => group = <<SymOp_identity>>
           /\ call.structure_factor_group /= <<>>
                => group = call.structure_factor_group
  /\ (call.fn = "PrimSearchData" /\ prim_search_data.status = "constructed") =>
       LET group == prim_search_data.record.prim_factor_group
       IN  /\ Len(group) >= 1
           /\ call.prim_factor_group = <<>> => group = <<SymOp_identity>>
           /\ call.prim_factor_group /= <<>> => group = call.prim_factor_group

\* A structure made with no factor group holds the identity, and a prim made
\* with the identity and the inversion holds the two, in that order.
C12_witness ==
  /\ structure_search_data.status = "constructed"
  /\ structure_search_data.record.structure_factor_group = <<SymOp_identity>>
  /\ call.fn = "PrimSearchData"
  /\ Len(call.prim_factor_group) = 2
  /\ call.prim_factor_group[2].matrix[1][1] = -1
  /\ prim_search_data.status = "constructed"
  /\ prim_search_data.record.prim_factor_group[1] = SymOp_identity
  /\ prim_search_data.record.prim_factor_group[2].matrix[1][1] = -1

\* C13: in a LatticeMappingSearchData, supercell_site_coordinate_cart has
\* N_supercell_site columns and supercell_allowed_atom_types N_supercell_site
\* entries; for the linear index l of sublattice b and unit cell ijk, column l
\* is the coordinate of prim site b plus L_prim * ijk and entry l is
\* prim_allowed_atom_types[b].
C13_supercell_sites ==
  lattice_mapping_search_data.status = "constructed" =>
    LET data == lattice_mapping_search_data.record
        prim == data.prim_data
        L == prim.prim_lattice.lat_column_mat
        column(l) == data.supercell_site_coordinate_cart[l]
        b(l) == data.unitcellcoord_index_converter.uccoord[l].sublattice
        ijk(l) == data.unitcellcoord_index_converter.uccoord[l].unitcell
        combination(l) ==
          VecOf(L[1][1] * ijk(l)[1] + L[1][2] * ijk(l)[2] + L[1][3] * ijk(l)[3],
                L[2][1] * ijk(l)[1] + L[2][2] * ijk(l)[2] + L[2][3] * ijk(l)[3],
                L[3][1] * ijk(l)[1] + L[3][2] * ijk(l)[2] + L[3][3] * ijk(l)[3],
                1)
    IN  /\ Len(data.supercell_site_coordinate_cart) = data.N_supercell_site
        /\ Len(data.supercell_allowed_atom_types) = data.N_supercell_site
        /\ \A l \in 1..data.N_supercell_site :
             /\ b(l) \in 1..prim.N_prim_site
             /\ VSub(column(l), prim.prim_site_coordinate_cart[b(l)])
                  = combination(l)
             /\ data.supercell_allowed_atom_types[l]
                  = prim.prim_allowed_atom_types[b(l)]

\* A prim of two sites with lattice vectors (2,0,0), (0,1,0), (0,0,1) doubled
\* along the first: four supercell sites, the second a lattice vector from
\* the first, the fourth with the allowed types of the second prim site.
C13_witness ==
  /\ lattice_mapping_search_data.status = "constructed"
  /\ lattice_mapping_search_data.record.prim_data.N_prim_site = 2
  /\ lattice_mapping_search_data.record.prim_data.prim_lattice
       .lat_column_mat[1][1] = 2
  /\ lattice_mapping_search_data.record.N_supercell_site = 4
  /\ lattice_mapping_search_data.record.supercell_site_coordinate_cart[1]
       = ZeroVec
  /\ lattice_mapping_search_data.record.supercell_site_coordinate_cart[2]
       = IntVec(<<2, 0, 0>>)
  /\ lattice_mapping_search_data.record.supercell_allowed_atom_types[4]
       = <<"B", "va">>

(***************************************************************************)
(* Shared ownership.  A record made with std::make_shared lives on the     *)
(* heap at an address, with the use count of its control block; a record   *)
(* holds the address of each record its std::shared_ptr members point to   *)
(* (0 for none), and the model keeps in `record` the fields the            *)
(* constructor computed, those read through the members included.          *)
(***************************************************************************)
\* The object std::make_shared makes: one owner, the handle returned.
make_shared(kind, record, prim_data, structure_data, lattice_mapping_data) ==
  [status |-> "live", kind |-> kind, use_count |-> 1, record |-> record,
   prim_data |-> prim_data, structure_data |-> structure_data,
   lattice_mapping_data |-> lattice_mapping_data]

\* A copy of a std::shared_ptr to the record at address a.
acquire(h, a) == [h EXCEPT ![a].use_count = @ + 1]

\* The end of a std::shared_ptr to the record at address a (0: an empty
\* pointer): the last one destroys the record, and with it its members.
RECURSIVE release(_, _)
release(h, a) ==
  IF a = 0 THEN h
  ELSE IF h[a].status /= "live" THEN h
  ELSE IF h[a].use_count > 1 THEN [h EXCEPT ![a].use_count = @ - 1]
  ELSE release(release(release([h EXCEPT ![a] = Null],
                               h[a].lattice_mapping_data),
                       h[a].structure_data),
               h[a].prim_data)

\* std::make_shared<PrimSearchData>(...) at the free address a: the heap
\* after it; a constructor that throws leaves no object.
make_shared_PrimSearchData(h, a, shared_prim, prim_factor_group, make_prim_sym_invariant_displacement_modes) ==
  LET outcome == PrimSearchData(shared_prim, prim_factor_group,
                                make_prim_sym_invariant_displacement_modes)
  IN  IF outcome.status /= "constructed" THEN h
      ELSE [h EXCEPT ![a] = make_shared("PrimSearchData", outcome.record,
                                        0, 0, 0)]

\* std::make_shared<StructureSearchData>(...) at the free address a.
make_shared_StructureSearchData(h, a, lattice, atom_coordinate_cart, atom_type, structure_factor_group) ==
  LET outcome == StructureSearchData(lattice, atom_coordinate_cart, atom_type,
                                     structure_factor_group)
  IN  IF outcome.status /= "constructed" THEN h
      ELSE [h EXCEPT ![a] = make_shared("StructureSearchData", outcome.record,
                                        0, 0, 0)]

\* make_shared_LatticeMappingSearchData writing the atom coordinates it
\* computes over those of the structure.
make_shared_LatticeMappingSearchData_in_place(h, a, prim_data, structure_data, lattice_mapping) ==
  LET record == LatticeMappingSearchData(h[prim_data].record,
                                         h[structure_data].record,
                                         lattice_mapping)
  IN  [acquire(acquire(h, prim_data), structure_data) EXCEPT
         ![a] = make_shared("LatticeMappingSearchData", record,
                            prim_data, structure_data, 0),
         ![structure_data].record.atom_coordinate_cart =
           record.atom_coordinate_cart_in_supercell]

\* make_shared_LatticeMappingSearchData keeping plain pointers to the prim
\* data and the structure data, without a share of their ownership.
make_shared_LatticeMappingSearchData_borrowed(h, a, prim_data, structure_data, lattice_mapping) ==
  [h EXCEPT
     ![a] = make_shared("LatticeMappingSearchData",
                        LatticeMappingSearchData(h[prim_data].record,
                                                 h[structure_data].record,
                                                 lattice_mapping),
                        prim_data, structure_data, 0)]

\* std::make_shared<LatticeMappingSearchData>(prim_data, structure_data,
\* lattice_mapping) at the free address a: the pointers are passed by value
\* (a copy each) and moved into the members (lines 471 and 472); the fields
\* are computed from the records they point to, which are const.
make_shared_LatticeMappingSearchData(h, a, prim_data, structure_data, lattice_mapping) ==
  [acquire(acquire(h, prim_data), structure_data) EXCEPT
     ![a] = make_shared("LatticeMappingSearchData",
                        LatticeMappingSearchData(h[prim_data].record,
                                                 h[structure_data].record,
                                                 lattice_mapping),
                        prim_data, structure_data, 0)]

\* std::make_shared<AtomMappingSearchData>(lattice_mapping_data, ...) at the
\* free address a: the heaps it may leave.  The pointer is passed by value and
\* moved into the member (line 580); when the constructor throws, the
\* member is destroyed and no object is left.
make_shared_AtomMappingSearchData(h, a, lattice_mapping_data, trial_translation_cart, atom_mapping_cost_f, infinity) ==
  {IF outcome.status /= "constructed" THEN h
   ELSE [acquire(h, lattice_mapping_data) EXCEPT
           ![a] = make_shared("AtomMappingSearchData", outcome.record,
                              0, 0, lattice_mapping_data)] :
     outcome \in AtomMappingSearchData(h[lattice_mapping_data].record,
                   trial_translation_cart, atom_mapping_cost_f, infinity)}

(***************************************************************************)
(* SharedSpec: callers make records on the heap, copy their handles and    *)
(* release them, in any order.                                             *)
(***************************************************************************)
\* The prim, the structure and the lattice mappings of SharedSpec: a prim of
\* one site, a structure of one atom away from the origin, and mappings that
\* leave the atom where it is or move it.
HeapPrims ==
  {prim \in SharedPrims :
     /\ prim.lattice.lat_column_mat = IdentityMat
     /\ Len(prim.basis) = 1
     /\ Len(prim.basis[1].occupant_dof) = 1}

HeapAtomCoordinates == {<<Vec(<<1, 1, 0>>, 2)>>}

HeapLatticeMappings ==
  {m \in LatticeMappings :
     m.transformation_matrix_to_super = m.deformation_gradient}

\* operator new: the lowest free address.
IsFree(a) ==
  /\ heap[a].status = "null"
  /\ \A b \in Addresses : b < a => heap[b].status = "live"

\* The number of handles the callers hold.
RECURSIVE N_handles(_)
N_handles(a) == IF a = 0 THEN 0 ELSE holders[a] + N_handles(a - 1)

\* A caller has a handle to spare.
HasEmptyHandle == N_handles(MaxRecord) < MaxHolder

\* The addresses a caller can name: those its handles hold, and those the
\* members of a record it can name hold (as in lattice_mapping_data->prim_data).
RECURSIVE Reach(_, _)
Reach(from, n) ==
  IF n = 0 THEN from
  ELSE Reach(from \cup {p \in Addresses :
                          \E a \in from : heap[a].status = "live"
                                          /\ p \in {heap[a].prim_data,
                                                    heap[a].structure_data,
                                                    heap[a].lattice_mapping_data}},
             n - 1)

Named(kind) ==
  {a \in Reach({a \in Addresses : holders[a] > 0}, 2) :
     heap[a].status = "live" /\ heap[a].kind = kind}

\* The prim data and the structure data are made once for a query.
MakePrimSearchData ==
  \E a \in Addresses, shared_prim \in HeapPrims :
    /\ \A b \in Addresses : heap[b].status = "live" => heap[b].kind /= "PrimSearchData"
    /\ HasEmptyHandle
    /\ IsFree(a)
    /\ heap' = make_shared_PrimSearchData(heap, a, shared_prim, <<>>, FALSE)
    /\ heap' /= heap
    /\ holders' = [holders EXCEPT ![a] = 1]
    /\ UNCHANGED <<call, voronoi, prim_search_data, structure_search_data,
                   lattice_mapping_search_data, trial_translations_made,
                   atom_mapping_search_data>>

MakeStructureSearchData ==
  \E a \in Addresses,
     atom_coordinate_cart \in HeapAtomCoordinates :
    /\ \A b \in Addresses : heap[b].status = "live" => heap[b].kind /= "StructureSearchData"
    /\ HasEmptyHandle
    /\ IsFree(a)
    /\ heap' = make_shared_StructureSearchData(heap, a, Lattice(IdentityMat, 1),
                 atom_coordinate_cart, <<"A">>, <<>>)
    /\ heap' /= heap
    /\ holders' = [holders EXCEPT ![a] = 1]
    /\ UNCHANGED <<call, voronoi, prim_search_data, structure_search_data,
                   lattice_mapping_search_data, trial_translations_made,
                   atom_mapping_search_data>>

MakeLatticeMappingSearchData ==
  \E a \in Addresses, lattice_mapping \in HeapLatticeMappings :
    \E prim_data \in Named("PrimSearchData"),
       structure_data \in Named("StructureSearchData") :
      /\ HasEmptyHandle
      /\ IsFree(a)
      /\ heap' = make_shared_LatticeMappingSearchData(heap, a, prim_data,
                   structure_data, lattice_mapping)
      /\ holders' = [holders EXCEPT ![a] = 1]
      /\ UNCHANGED <<call, voronoi, prim_search_data, structure_search_data,
                     lattice_mapping_search_data, trial_translations_made,
                     atom_mapping_search_data>>

ComputeTrialTranslations ==
  \E lattice_mapping_data \in Named("LatticeMappingSearchData") :
    /\ \E ret \in make_trial_translations(heap[lattice_mapping_data].record) :
         trial_translations_made' = ret
    /\ UNCHANGED <<call, voronoi, prim_search_data, structure_search_data,
                   lattice_mapping_search_data, atom_mapping_search_data,
                   heap, holders>>

MakeAtomMappingSearchData ==
  \E a \in Addresses :
    \E lattice_mapping_data \in Named("LatticeMappingSearchData") :
      /\ HasEmptyHandle
      /\ IsFree(a)
      /\ heap' \in make_shared_AtomMappingSearchData(heap, a,
                     lattice_mapping_data, ZeroVec, "make_atom_mapping_cost",
                     RatInt(InfinityValue))
      /\ heap' /= heap
      /\ holders' = [holders EXCEPT ![a] = 1]
      /\ UNCHANGED <<call, voronoi, prim_search_data, structure_search_data,
                     lattice_mapping_search_data, trial_translations_made,
                     atom_mapping_search_data>>

\* A caller copies a pointer it can name into a handle.
CopyHandle ==
  \E a \in Reach({b \in Addresses : holders[b] > 0}, 2) :
    /\ HasEmptyHandle
    /\ heap[a].status = "live"
    /\ heap' = acquire(heap, a)
    /\ holders' = [holders EXCEPT ![a] = @ + 1]
    /\ UNCHANGED <<call, voronoi, prim_search_data, structure_search_data,
                   lattice_mapping_search_data, trial_translations_made,
                   atom_mapping_search_data>>

\* A caller releases a handle.
ReleaseHandle ==
  \E a \in Addresses :
    /\ holders[a] > 0
    /\ heap' = release(heap, a)
    /\ holders' = [holders EXCEPT ![a] = @ - 1]
    /\ UNCHANGED <<call, voronoi, prim_search_data, structure_search_data,
                   lattice_mapping_search_data, trial_translations_made,
                   atom_mapping_search_data>>

SharedInit ==
  /\ call = [fn |-> "none"]
  /\ voronoi = Null
  /\ RecordsIdle

SharedNext ==
  \/ MakePrimSearchData
  \/ MakeStructureSearchData
  \/ MakeLatticeMappingSearchData
  \/ ComputeTrialTranslations
  \/ MakeAtomMappingSearchData
  \/ CopyHandle
  \/ ReleaseHandle

SharedSpec == SharedInit /\ [][SharedNext]_vars

\* The records at the addresses the members of the record at address a hold.
Ancestors(h, a) ==
  {h[a].prim_data, h[a].structure_data, h[a].lattice_mapping_data} \ {0}

\* The number of handles and of members of live records that point to a.
Owners(h, handles, a) ==
  handles[a]
  + Cardinality({b \in Addresses : h[b].status = "live" /\ a \in Ancestors(h, b)})

\* C14: constructing a derived record, or computing trial translations,
\* changes no field of an ancestor record: in every step the fields of every
\* record that exists are what they were, an existing record stays when a
\* record is made, and the prim data, structure data and lattice mapping data
\* a record was built from are still what the record read when it was built,
\* for any number of records built from the same ancestors in any order.
C14_ancestors_unchanged ==
  [][ /\ \A a \in Addresses :
           (heap[a].status = "live" /\ heap'[a].status = "live")
             => heap'[a].record = heap[a].record
      /\ (\E a \in Addresses : heap[a].status = "null" /\ heap'[a].status = "live")
           => \A b \in Addresses : heap[b].status = "live" => heap'[b].status = "live"
      /\ \A a \in Addresses :
           heap'[a].status = "live" =>
             /\ (heap'[a].prim_data /= 0 /\ heap'[heap'[a].prim_data].status = "live")
                  => heap'[a].record.prim_data = heap'[heap'[a].prim_data].record
             /\ (heap'[a].structure_data /= 0
                 /\ heap'[heap'[a].structure_data].status = "live")
                  => heap'[a].record.structure_data
                       = heap'[heap'[a].structure_data].record
             /\ (heap'[a].lattice_mapping_data /= 0
                 /\ heap'[heap'[a].lattice_mapping_data].status = "live")
                  => heap'[a].record.lattice_mapping_data
                       = heap'[heap'[a].lattice_mapping_data].record
    ]_vars

\* Two lattice mapping records built from the same prim and structure, with
\* different deformations that move the atom, and the structure as it was.
C14_witness ==
  \E a \in Addresses, b \in Addresses :
    /\ a /= b
    /\ heap[a].status = "live" /\ heap[b].status = "live"
    /\ heap[a].kind = "LatticeMappingSearchData"
    /\ heap[b].kind = "LatticeMappingSearchData"
    /\ heap[a].structure_data = heap[b].structure_data
    /\ heap[a].prim_data = heap[b].prim_data
    /\ heap[a].record.atom_coordinate_cart_in_supercell
         /= heap[b].record.atom_coordinate_cart_in_supercell
    /\ heap[heap[a].structure_data].status = "live"
    /\ heap[heap[a].structure_data].record.atom_coordinate_cart
         = heap[b].record.atom_coordinate_cart_in_supercell
    /\ trial_translations_made.status = "returned"

\* C15: under shared ownership an ancestor outlives its descendants: while
\* an AtomMappingSearchData exists its LatticeMappingSearchData exists, while
\* a LatticeMappingSearchData exists its PrimSearchData and
\* StructureSearchData exist, whatever the order in which holders make and
\* release records; and a record is destroyed only when its last holder
\* releases it.
C15_ancestors_outlive_descendants ==
  /\ [](\A a \in Addresses :
          heap[a].status = "live" =>
            /\ \A p \in Ancestors(heap, a) : heap[p].status = "live"
            /\ heap[a].kind = "AtomMappingSearchData" =>
                 /\ heap[a].lattice_mapping_data /= 0
                 /\ heap[heap[a].lattice_mapping_data].kind
                      = "LatticeMappingSearchData"
            /\ heap[a].kind = "LatticeMappingSearchData" =>
                 /\ heap[a].prim_data /= 0
                 /\ heap[a].structure_data /= 0
                 /\ heap[heap[a].prim_data].kind = "PrimSearchData"
                 /\ heap[heap[a].structure_data].kind = "StructureSearchData")
  /\ [][\A a \in Addresses :
          (heap[a].status = "live" /\ heap'[a].status = "null") =>
            /\ Owners(heap, holders, a) = 1
            /\ Owners(heap', holders', a) = 0]_vars

\* An AtomMappingSearchData is all the callers hold: its lattice mapping
\* data, prim data and structure data exist, held by the records alone.
C15_witness ==
  \E a \in Addresses :
    /\ heap[a].status = "live"
    /\ heap[a].kind = "AtomMappingSearchData"
    /\ \A b \in Addresses : holders[b] > 0 <=> b = a
    /\ heap[heap[a].lattice_mapping_data].status = "live"
    /\ heap[heap[heap[a].lattice_mapping_data].prim_data].status = "live"
    /\ heap[heap[heap[a].lattice_mapping_data].structure_data].status = "live"
    /\ heap[heap[heap[a].lattice_mapping_data].prim_data].use_count = 1

\* C16: fast_pbc_displacement_cart returns (a - s) - L * round(L^-1 (a - s)),
\* a - s less the nearest whole combination of the lattice vectors, so that
\* what it returns differs from a - s by a translation of the lattice L.
C16_fast_removes_lattice_translation ==
  call.fn = "fast_pbc_displacement_cart" =>
    LET L == call.lattice.lat_column_mat
        disp == VSub(call.atom_cart, call.site_cart)
    IN  /\ call.ret = VSub(disp, MatVec(L, LRoundVec(InvMatVec(L, disp))))
        /\ InvMatVec(L, VSub(call.ret, disp)).d = 1

\* C17: make_trial_translations is deterministic and keeps the order of the
\* prim sites: a second call with the same inputs returns the same sequence;
\* the translations returned are in ascending order of the prim site they
\* were made from; and with an atom, and every atom allowed on some prim
\* site, the sequence is not empty, starts with the translation to the first
\* site allowed for the reference atom, and is no longer than the number of
\* sites allowed for it.
C17_deterministic_and_ordered ==
  call.fn = "make_trial_translations" =>
    LET T == IF call.ret.status = "returned"
             THEN call.ret.trial_translations ELSE <<>>
        N_atom == Len(call.atom_type)
        allowed(j) ==
          {b \in 1..Len(call.prim_allowed_atom_types) :
             \E k \in 1..Len(call.prim_allowed_atom_types[b]) :
               call.prim_allowed_atom_types[b][k] = call.atom_type[j]}
        ref == call.ret.best_atom_index
        to_site(b) == VSub(call.prim_site_coordinate_cart[b],
                           call.atom_coordinate_cart_in_supercell[ref])
        first == CHOOSE b \in allowed(ref) : \A c \in allowed(ref) : b <= c
    IN  /\ call.again.status = call.ret.status
        /\ call.again.trial_translations = T
        /\ (call.ret.status = "returned" /\ N_atom >= 1) =>
             \A i \in 1..Len(T) : \A k \in 1..Len(T) :
               i < k => \E b \in allowed(ref) : \E c \in allowed(ref) :
                          b < c /\ T[i] = to_site(b) /\ T[k] = to_site(c)
        /\ (N_atom >= 1 /\ \A j \in 1..N_atom : allowed(j) /= {}) =>
             /\ call.ret.status = "returned"
             /\ T /= <<>>
             /\ T[1] = to_site(first)
             /\ Len(T) <= Cardinality(allowed(ref))

\* C18: make_trial_translations and the cost matrix agree on the sites
\* allowed for an atom type, the labels of a vacancy included: a prim site is
\* counted as allowed exactly when make_atom_mapping_cost on it is not the
\* infinity value; so the translations considered for the reference atom are
\* one for each site of finite cost, and no translation is returned for want
\* of an allowed site only when the cost matrix column of some atom would be
\* all infinite.
C18_allowed_sites_agree_with_cost ==
  (/\ call.fn = "make_trial_translations"
   /\ call.ret.status = "returned"
   /\ ~ call.ret.out_of_bounds_read)
  => LET finite(j) ==
           {b \in 1..Len(call.prim_allowed_atom_types) :
              make_atom_mapping_cost(ZeroVec, call.atom_type[j],
                call.prim_allowed_atom_types[b], RatInt(InfinityValue))
              /= RatInt(InfinityValue)}
     IN  /\ call.ret.returned_early
              <=> \E j \in 1..Len(call.atom_type) : finite(j) = {}
         /\ (~ call.ret.returned_early /\ Len(call.atom_type) >= 1)
              => Len(call.ret.test_translations)
                   = Cardinality(finite(call.ret.best_atom_index))

\* C19: make_trial_translations reads atom_type and
\* atom_coordinate_cart_in_supercell only at indices in [0, N_atom): with no
\* atom and a prim site it returns without reading the empty atom list.
C19_no_read_outside_atoms ==
  call.fn = "make_trial_translations" =>
    /\ call.ret.status = "returned"
    /\ ~ call.ret.out_of_bounds_read

C21_cost_matrix_writes_in_bounds ==
  (/\ call.fn = "make_cost_matrix"
   /\ Len(call.site_displacements) = Len(call.allowed_atom_types)
   /\ \A i \in 1..Len(call.site_displacements) :
        Len(call.site_displacements[i]) = Len(call.atom_type))
  => /\ call.ret.status = "returned"
     /\ ~ call.ret.out_of_bounds_write

====
